---- MODULE Spec2Model ----
(***************************************************************************)
(* Model of mkdocs_rss_plugin/plugin.py: the GitRssPlugin instance, its    *)
(* three mkdocs hooks (on_config, on_page_markdown, on_post_build), the    *)
(* Jinja rendering of the feed and the file it writes.                     *)
(*                                                                         *)
(* Text that is rendered into the feed (titles, descriptions) is a         *)
(* sequence of one-character strings, so that escaping is a real           *)
(* conversion.  Configuration strings that are only concatenated are TLA+  *)
(* strings.  Python's None is the string NONE.                             *)
(***************************************************************************)
EXTENDS Integers, Sequences, FiniteSets, TLC

\* ------------------------------------------------------------------ bounds
\* largest number of pages the site holds
MaxPages == 3
\* largest number of on_page_markdown calls when hooks are called freely
MaxCalls == 3

\* ------------------------------------------------------- values and inputs
NONE == "None"

\* Path(__file__).parent / "templates"
DEFAULT_TEMPLATE_FOLDER == "mkdocs_rss_plugin/templates"

\* DEFAULT_TEMPLATE_FOLDER / "rss.xml.jinja2"; a file name is the sequence
\* of its dot-separated parts
DEFAULT_TEMPLATE_FILENAME ==
    [folder |-> DEFAULT_TEMPLATE_FOLDER, name |-> <<"rss", "xml", "jinja2">>]

\* a template path a user may configure
CUSTOM_XML_TEMPLATE == [folder |-> "theme", name |-> <<"feed", "xml">>]

\* another one, whose name does not end in .xml
CUSTOM_J2_TEMPLATE == [folder |-> "theme", name |-> <<"feed", "jinja2">>]

TemplatePaths ==
    {DEFAULT_TEMPLATE_FILENAME, CUSTOM_XML_TEMPLATE, CUSTOM_J2_TEMPLATE}

\* what the file system holds at a template path: nothing, a template that
\* prints fields bare ({{ e.title }}), or one that pipes them through the
\* escape filter ({{ e.title|e }})
TemplateBodies == {"missing", "plain", "e_filter"}

\* the values of the length option that are tried (20 is the default)
Lengths == {-1, 0, 1, 2, 20}

SiteUrls == {NONE, "", "https://a.io"}

FeedPaths == {"feed.xml", "rss/feed.xml"}

\* exclude_files: a list of path patterns, each a sequence of components
ExcludeLists == {<< >>, << <<"drafts", "*">> >>}

\* the config_scheme of the plugin with its defaults
config_scheme ==
    [abstract_chars_count |-> 150,
     category             |-> NONE,
     exclude_files        |-> << >>,
     feed_ttl             |-> 1440,
     length               |-> 20,
     output_feed_filepath |-> "feed.xml",
     template             |-> DEFAULT_TEMPLATE_FILENAME]

\* ------------------------------------------------------------ site pages
\* page.file.abs_src_path of the i-th page of the site
abs_src_path(i) ==
    << (IF i % 2 = 0 THEN "drafts" ELSE "docs"), "p" \o ToString(i) \o ".md" >>

\* page.title of the i-th page
page_title(i) ==
    CASE i % 3 = 1 -> <<"A", "&", "B">>
      [] i % 3 = 2 -> <<"a", "<", "b", ">">>
      [] OTHER     -> <<"T">>

\* page.canonical_url of the i-th page
canonical_url(i) == "https://a.io/p" \o ToString(i) \o "/"

\* Util.get_file_dates(path, fallback_to_build_date=1): (created, updated)
get_file_dates(i) ==
    LET updated == (2 * i) % 3
    IN << (IF i % 2 <= updated THEN i % 2 ELSE updated), updated >>

\* Util.get_description_or_abstract(in_page, chars_count)
get_description_or_abstract(i, chars_count) ==
    IF chars_count <= 0 THEN << >>
    ELSE IF i % 2 = 1 THEN <<"x", "&", "y">> ELSE <<"d">>

\* PageInformation(abs_path, created, updated, title, description, url_full)
PageInformation(abs_path, created, updated, title, description, url_full) ==
    [abs_path    |-> abs_path,
     created     |-> created,
     updated     |-> updated,
     title       |-> title,
     description |-> description,
     url_full    |-> url_full]

\* ------------------------------------------------------------------ state
VARIABLES
    config,           \* self.config: the plugin options, loaded before any hook
    site_config,      \* the global mkdocs configuration passed to the hooks
    tpl_fs,           \* the file system at each template path
    npages,           \* number of pages of the site
    attrs,            \* instance attributes the hooks have created so far
    tpl_file,         \* self.tpl_file
    tpl_folder,       \* self.tpl_folder
    feed,             \* self.feed: keys present and their values
    pages_to_filter,  \* self.pages_to_filter
    pc,               \* position of the on_page_markdown call of each page
    page_dates,       \* local page_dates of the on_page_markdown call of each page
    out_file,         \* the file at output_feed_filepath
    last_call,        \* the hook that returned or raised last
    error,            \* how it ended: "ok" or the exception raised
    hostpc            \* position of the mkdocs build that drives the hooks

vars == <<config, site_config, tpl_fs, npages, attrs, tpl_file, tpl_folder,
          feed, pages_to_filter, pc, page_dates, out_file, last_call, error,
          hostpc>>

inputs == <<config, site_config, tpl_fs, npages>>

PageIds == 1..MaxPages

\* the dictionary self.feed before it exists
NoFeed ==
    [keys |-> {}, author |-> NONE, buildDate |-> NONE, copyright |-> NONE,
     description |-> NONE, generator |-> NONE, html_url |-> NONE,
     repo_url |-> NONE, title |-> NONE, ttl |-> 0, rss_url |-> NONE,
     entries |-> << >>]

NoFile == [exists |-> FALSE, items |-> << >>]

\* GitRssPlugin.__init__ followed by mkdocs loading the configuration
Init ==
    /\ \E t \in TemplatePaths, b \in TemplateBodies, l \in Lengths,
          x \in ExcludeLists, o \in FeedPaths :
          /\ config = [config_scheme EXCEPT !.template = t, !.length = l,
                          !.exclude_files = x, !.output_feed_filepath = o]
          /\ tpl_fs = [p \in TemplatePaths |->
                          IF p = t THEN b
                          ELSE IF p = DEFAULT_TEMPLATE_FILENAME THEN "plain"
                          ELSE "missing"]
          \* the bundled template is installed with the package
          /\ t = DEFAULT_TEMPLATE_FILENAME => b # "missing"
    /\ \E u \in SiteUrls :
          site_config = [site_author |-> "me", copyright |-> NONE,
                         site_description |-> "docs", site_url |-> u,
                         site_name |-> "Site"]
    /\ npages \in 0..MaxPages
    /\ attrs = {"pages_to_filter", "util", "config"}
    /\ tpl_file = << >>
    /\ tpl_folder = NONE
    /\ feed = NoFeed
    /\ pages_to_filter = << >>
    /\ pc = [p \in PageIds |-> "idle"]
    /\ page_dates = [p \in PageIds |-> <<0, 0>>]
    /\ out_file = NoFile
    /\ last_call = "none"
    /\ error = "none"
    /\ hostpc = "start"

\* -------------------------------------------------------------- on_config
\* Path(p).is_file()
is_file(p) == tpl_fs[p] # "missing"

\* "{} - v{}".format(__title__, __version__)
generator == "MkDocs RSS plugin" \o " - v" \o "0.1.0"

\* formatdate(get_build_timestamp())
buildDate == "Tue, 03 Nov 2026 00:00:00 -0000"

\* config.get(key, default) on the site configuration: repo_url is not set
site_get(key, default) ==
    IF key \in DOMAIN site_config THEN site_config[key] ELSE default

\* truth value of a configuration string
truthy(s) == s # NONE /\ s # ""

\* the two parts put together without the separator
rss_url_format_nosep(site_url, filepath) == site_url \o filepath

\* "{}/{}".format(site_url, output_feed_filepath)
rss_url_format(site_url, filepath) == site_url \o "/" \o filepath

\* the dictionary assigned to self.feed, with the rss_url key when site_url
\* is set
feed_dict ==
    LET base == [NoFeed EXCEPT
                   !.keys = {"author", "buildDate", "copyright", "description",
                             "generator", "html_url", "repo_url", "title",
                             "ttl"},
                   !.author = site_get("site_author", NONE),
                   !.buildDate = buildDate,
                   !.copyright = site_get("copyright", NONE),
                   !.description = site_get("site_description", NONE),
                   !.generator = generator,
                   !.html_url = site_get("site_url", NONE),
                   !.repo_url = site_get("repo_url", site_get("site_url", NONE)),
                   !.title = site_get("site_name", NONE),
                   !.ttl = config.feed_ttl]
    IN IF truthy(site_get("site_url", NONE))
       THEN [base EXCEPT !.keys = @ \cup {"rss_url"},
                         !.rss_url = rss_url_format(site_get("site_url", NONE),
                                                    config.output_feed_filepath)]
       ELSE base

\* on_config that builds self.feed before it looks at the template
on_config_late_check ==
    /\ last_call' = "on_config"
    /\ feed' = feed_dict
    /\ IF ~is_file(config.template)
       THEN /\ error' = "FileExistsError"
            /\ attrs' = attrs \cup {"feed"}
            /\ UNCHANGED <<tpl_file, tpl_folder>>
       ELSE /\ error' = "ok"
            /\ tpl_file' = config.template.name
            /\ tpl_folder' = config.template.folder
            /\ attrs' = attrs \cup {"tpl_file", "tpl_folder", "feed"}
    /\ UNCHANGED <<inputs, pages_to_filter, pc, page_dates, out_file>>

on_config ==
    /\ last_call' = "on_config"
    /\ IF ~is_file(config.template)
       THEN /\ error' = "FileExistsError"
            /\ UNCHANGED <<attrs, tpl_file, tpl_folder, feed>>
       ELSE /\ error' = "ok"
            /\ tpl_file' = config.template.name
            /\ tpl_folder' = config.template.folder
            /\ feed' = feed_dict
            /\ attrs' = attrs \cup {"tpl_file", "tpl_folder", "feed"}
    /\ UNCHANGED <<inputs, pages_to_filter, pc, page_dates, out_file>>

\* ------------------------------------------------------- on_page_markdown
\* an assignment of a one-element list in place of the append
list_assign(lst, x) == <<x>>

\* list.append: one indivisible step of the interpreter
list_append(lst, x) == Append(lst, x)

\* lines 113-115: page_dates = self.util.get_file_dates(...)
on_page_markdown_dates(p) ==
    /\ pc[p] # "L118"
    /\ page_dates' = [page_dates EXCEPT ![p] = get_file_dates(p)]
    /\ pc' = [pc EXCEPT ![p] = "L118"]
    /\ UNCHANGED <<inputs, attrs, tpl_file, tpl_folder, feed, pages_to_filter,
                   out_file, last_call, error>>

\* the PageInformation built from dates kept in one slot shared by all calls
page_information_shared(p) ==
    PageInformation(abs_src_path(p), page_dates[1][1], page_dates[1][2],
                    page_title(p),
                    get_description_or_abstract(p, config.abstract_chars_count),
                    canonical_url(p))

\* the PageInformation built at lines 119-128
page_information(p) ==
    PageInformation(abs_src_path(p), page_dates[p][1], page_dates[p][2],
                    page_title(p),
                    get_description_or_abstract(p, config.abstract_chars_count),
                    canonical_url(p))

\* on_page_markdown that also fills feed["entries"] as pages come in
on_page_markdown_append_entries(p) ==
    /\ pc[p] = "L118"
    /\ pages_to_filter' = list_append(pages_to_filter, page_information(p))
    /\ feed' = [feed EXCEPT !.keys = @ \cup {"entries"},
                            !.entries = Append(@, [title |-> page_title(p),
                                                   description |-> << >>])]
    /\ pc' = [pc EXCEPT ![p] = "done"]
    /\ last_call' = "on_page_markdown"
    /\ error' = "ok"
    /\ UNCHANGED <<inputs, attrs, tpl_file, tpl_folder, page_dates, out_file>>

\* lines 118-129: self.pages_to_filter.append(PageInformation(...)); return
on_page_markdown_append(p) ==
    /\ pc[p] = "L118"
    /\ pages_to_filter' = list_append(pages_to_filter, page_information(p))
    /\ pc' = [pc EXCEPT ![p] = "done"]
    /\ last_call' = "on_page_markdown"
    /\ error' = "ok"
    /\ UNCHANGED <<inputs, attrs, tpl_file, tpl_folder, feed, page_dates,
                   out_file>>

\* ---------------------------------------------------------- on_post_build
\* select_autoescape(["xml"]): on for template names ending in ".xml"
select_autoescape(name) == Len(name) >= 2 /\ name[Len(name)] = "xml"

\* markupsafe.escape of one character
escape_char(c) ==
    CASE c = "&"  -> <<"&", "a", "m", "p", ";">>
      [] c = "<"  -> <<"&", "l", "t", ";">>
      [] c = ">"  -> <<"&", "g", "t", ";">>
      [] c = "'"  -> <<"&", "#", "3", "9", ";">>
      [] c = "\"" -> <<"&", "#", "3", "4", ";">>
      [] OTHER    -> <<c>>

RECURSIVE escape(_)
\* markupsafe.escape of a text
escape(s) == IF s = << >> THEN << >> ELSE escape_char(Head(s)) \o escape(Tail(s))

\* the text a template expression produces for value s: escaped when the
\* environment autoescapes the template or the expression uses the e filter
\* (a value is never escaped twice)
expression(s, autoescape, body) ==
    IF autoescape \/ body = "e_filter" THEN escape(s) ELSE s

\* the items the template prints: one per element of feed.entries
template_items(entries, autoescape, body) ==
    [i \in 1..Len(entries) |->
        [title       |-> expression(entries[i].title, autoescape, body),
         description |-> expression(entries[i].description, autoescape, body)]]

\* template.render(feed=self.feed) for the template file tpl_folder/tpl_file
template_render(folder, name, f) ==
    template_items(f.entries, select_autoescape(name),
                   tpl_fs[[folder |-> folder, name |-> name]])

\* the list assigned to self.feed["entries"] at lines 152-155
entries_literal ==
    << [title       |-> <<"h", "a", "h", "a", "h", "a">>,
        description |-> <<"y", "o", "u", "p", "l", "o", "u", "b", "o", "u", "m">>],
       [title       |-> <<"O", "I", "H", "O", "H", "O", "I", "H", "O">>,
        description |-> <<"&", "é", "(", "'", "(", "é", "'">>] >>

\* on_post_build that writes an empty feed when the instance is not configured
on_post_build_silent ==
    /\ last_call' = "on_post_build"
    /\ error' = "ok"
    /\ IF "tpl_folder" \notin attrs
       THEN /\ out_file' = [exists |-> TRUE, items |-> << >>]
            /\ UNCHANGED feed
       ELSE /\ feed' = [feed EXCEPT !.keys = @ \cup {"entries"},
                                    !.entries = entries_literal]
            /\ out_file' = [exists |-> TRUE,
                            items  |-> template_render(tpl_folder, tpl_file, feed')]
    /\ UNCHANGED <<inputs, attrs, tpl_file, tpl_folder, pages_to_filter, pc,
                   page_dates>>

on_post_build ==
    /\ last_call' = "on_post_build"
    /\ IF "tpl_folder" \notin attrs
       THEN \* self.tpl_folder does not exist
            /\ error' = "AttributeError"
            /\ UNCHANGED <<feed, out_file>>
       ELSE /\ error' = "ok"
            /\ feed' = [feed EXCEPT !.keys = @ \cup {"entries"},
                                    !.entries = entries_literal]
            /\ out_file' = [exists |-> TRUE,
                            items  |-> template_render(tpl_folder, tpl_file, feed')]
    /\ UNCHANGED <<inputs, attrs, tpl_file, tpl_folder, pages_to_filter, pc,
                   page_dates>>

\* ------------------------------------------------- the mkdocs build drives
\* the config event is the first event called on build; an exception aborts
\* the build
BuildConfig ==
    /\ hostpc = "start"
    /\ on_config
    /\ hostpc' = IF error' = "ok" THEN "pages" ELSE "aborted"

\* the page_markdown event is called once for each page of the site after
\* its markdown is loaded; calls for distinct pages may overlap
BuildPageDates(p) ==
    /\ hostpc = "pages"
    /\ p \in 1..npages
    /\ pc[p] = "idle"
    /\ on_page_markdown_dates(p)
    /\ UNCHANGED hostpc

BuildPageAppend(p) ==
    /\ hostpc = "pages"
    /\ on_page_markdown_append(p)
    /\ UNCHANGED hostpc

\* the post_build event is called once, after all pages are built
BuildPostBuild ==
    /\ hostpc = "pages"
    /\ \A p \in 1..npages : pc[p] = "done"
    /\ on_post_build
    /\ hostpc' = IF error' = "ok" THEN "done" ELSE "aborted"

Next ==
    \/ BuildConfig
    \/ \E p \in PageIds : BuildPageDates(p)
    \/ \E p \in PageIds : BuildPageAppend(p)
    \/ BuildPostBuild

Spec == Init /\ [][Next]_vars

\* --------------------------------- the hooks called on the instance freely
\* the plugin object with its methods called in any order, any number of
\* times; one configuration is enough to tell the orders apart
InitAny ==
    /\ Init
    /\ config.length = 20
    /\ config.exclude_files = << >>
    /\ config.output_feed_filepath = "feed.xml"
    /\ site_config.site_url = "https://a.io"
    /\ npages = MaxPages

AnyConfig == on_config /\ UNCHANGED hostpc

AnyPageDates(p) ==
    /\ Len(pages_to_filter) + Cardinality({q \in PageIds : pc[q] = "L118"}) < MaxCalls
    /\ on_page_markdown_dates(p)
    /\ UNCHANGED hostpc

AnyPageAppend(p) == on_page_markdown_append(p) /\ UNCHANGED hostpc

AnyPostBuild == on_post_build /\ UNCHANGED hostpc

NextAny ==
    \/ AnyConfig
    \/ \E p \in PageIds : AnyPageDates(p)
    \/ \E p \in PageIds : AnyPageAppend(p)
    \/ AnyPostBuild

SpecAny == InitAny /\ [][NextAny]_vars

\* ================================================================ claims
Min(a, b) == IF a < b THEN a ELSE b

\* the feed file has been written by on_post_build
Written == out_file.exists

\* the expected PageInformation of page p
ExpectedInfo(p) ==
    PageInformation(abs_src_path(p), get_file_dates(p)[1], get_file_dates(p)[2],
                    page_title(p),
                    get_description_or_abstract(p, config.abstract_chars_count),
                    canonical_url(p))

\* ---- C1
\* C1: the feed written by on_post_build holds min(N, length) items for N
\* collected entries when length > 0, and N items when length <= 0.
C1_ItemCount ==
    Written =>
        Len(out_file.items) =
            (IF config.length > 0
             THEN Min(Len(pages_to_filter), config.length)
             ELSE Len(pages_to_filter))

\* ---- C2
\* code points of the characters of the page titles
CodePoint(c) ==
    CASE c = "&" -> 38 [] c = "<" -> 60 [] c = ">" -> 62 [] c = "A" -> 65
      [] c = "B" -> 66 [] c = "T" -> 84 [] c = "a" -> 97 [] c = "b" -> 98
      [] OTHER -> 0

RECURSIVE TextLess(_, _)
\* s sorts strictly before t
TextLess(s, t) ==
    IF t = << >> THEN FALSE
    ELSE IF s = << >> THEN TRUE
    ELSE IF CodePoint(Head(s)) # CodePoint(Head(t))
         THEN CodePoint(Head(s)) < CodePoint(Head(t))
         ELSE TextLess(Tail(s), Tail(t))

\* page a may not come after page b in the feed
ComesFirst(a, b) ==
    \/ a.updated > b.updated
    \/ a.updated = b.updated /\ a.created > b.created
    \/ a.updated = b.updated /\ a.created = b.created /\ ~TextLess(b.title, a.title)

\* C2: the entries of the written feed are collected pages, each page at most
\* once, ordered by updated descending, then created descending, then title
\* ascending.
C2_SortedPages ==
    Written =>
        \E f \in [1..Len(feed.entries) -> 1..Len(pages_to_filter)] :
            /\ \A i, j \in DOMAIN feed.entries : i # j => f[i] # f[j]
            /\ \A i \in DOMAIN feed.entries :
                  /\ feed.entries[i].title = pages_to_filter[f[i]].title
                  /\ feed.entries[i].description = pages_to_filter[f[i]].description
            /\ \A i, j \in DOMAIN feed.entries :
                  i < j => ComesFirst(pages_to_filter[f[i]], pages_to_filter[f[j]])

\* ---- C3
\* C3: when the configured template is not an existing file, on_config ends
\* in an error, creates no feed metadata and leaves the collected entries as
\* they are, and no page is processed before or after it.
C3_MissingTemplateFails ==
    /\ [][ ~is_file(config.template) /\ last_call' = "on_config" =>
             /\ error' = "FileExistsError"
             /\ "feed" \notin attrs'
             /\ feed' = NoFeed
             /\ pages_to_filter' = pages_to_filter ]_vars
    /\ [](~is_file(config.template) =>
             /\ pages_to_filter = << >>
             /\ \A p \in PageIds : pc[p] = "idle"
             /\ ~Written)

C3_Witness ==
    /\ ~is_file(config.template)
    /\ last_call = "on_config"
    /\ error = "FileExistsError"
    /\ npages > 0

\* ---- C4
\* a call of on_page_markdown returns or raises in this step
PageCallEnds == \E p \in PageIds : pc[p] = "L118" /\ pc'[p] = "done"

\* no on_config has succeeded on the instance
Unconfigured == "feed" \notin attrs

\* C4 as stated: a hook called out of order fails: on_page_markdown before a
\* successful on_config or after on_post_build has rendered, and
\* on_post_build before a successful on_config.
C4_OutOfOrderFails ==
    [][ /\ (PageCallEnds /\ (Unconfigured \/ "entries" \in feed.keys)
               => error' # "ok")
        /\ (last_call' = "on_post_build" /\ Unconfigured
               => error' # "ok" /\ out_file' = out_file) ]_vars

\* C4 amended: on_post_build called before a successful on_config ends in an
\* error and writes no feed file; the feed file exists only on a configured
\* instance.
C4_PostBuildUnconfiguredFails ==
    /\ [][ last_call' = "on_post_build" /\ Unconfigured =>
             /\ error' = "AttributeError"
             /\ out_file' = out_file
             /\ feed' = feed ]_vars
    /\ [](Written => ~Unconfigured)

C4_Witness ==
    /\ last_call = "on_post_build"
    /\ error = "AttributeError"
    /\ Unconfigured
    /\ ~Written
    /\ Len(pages_to_filter) > 0

\* ---- C5
\* a path matches a pattern of the same length component by component, "*"
\* matching any component
PathMatches(path, pattern) ==
    /\ Len(path) = Len(pattern)
    /\ \A k \in 1..Len(path) : pattern[k] = "*" \/ pattern[k] = path[k]

Excluded(path) ==
    \E k \in 1..Len(config.exclude_files) : PathMatches(path, config.exclude_files[k])

\* C5: pages_to_filter never holds an entry whose abs_path matches a pattern
\* of exclude_files.
C5_ExcludedNeverCollected ==
    \A i \in 1..Len(pages_to_filter) : ~Excluded(pages_to_filter[i].abs_path)

\* ---- C6
\* C6: within a build the collection holds at most one PageInformation per
\* abs_path; a step only ever appends one entry to it, and on_post_build
\* leaves it unchanged.
C6_OnePerPathAppendOnly ==
    /\ [](\A i, j \in 1..Len(pages_to_filter) :
             pages_to_filter[i].abs_path = pages_to_filter[j].abs_path => i = j)
    /\ [][ \/ pages_to_filter' = pages_to_filter
           \/ /\ PageCallEnds
              /\ Len(pages_to_filter') = Len(pages_to_filter) + 1
              /\ SubSeq(pages_to_filter', 1, Len(pages_to_filter)) = pages_to_filter
         ]_vars
    /\ [][ last_call' = "on_post_build" => pages_to_filter' = pages_to_filter ]_vars

C6_Witness ==
    /\ Len(pages_to_filter) = MaxPages
    /\ last_call = "on_post_build"
    /\ error = "ok"

\* ---- C7
RECURSIVE Drop(_, _)
Drop(s, n) == IF n = 0 \/ s = << >> THEN s ELSE Drop(Tail(s), n - 1)

StartsWith(s, prefix) ==
    Len(s) >= Len(prefix) /\ SubSeq(s, 1, Len(prefix)) = prefix

\* the entity references an escaped text is made of
Entities ==
    { <<"&", "a", "m", "p", ";">>, <<"&", "l", "t", ";">>, <<"&", "g", "t", ";">>,
      <<"&", "#", "3", "9", ";">>, <<"&", "#", "3", "4", ";">> }

RECURSIVE WellFormedText(_)
\* character data of an XML element with the reserved characters escaped:
\* no bare "<" or ">", and every "&" starts an entity reference
WellFormedText(s) ==
    IF s = << >> THEN TRUE
    ELSE IF Head(s) \in {"<", ">"} THEN FALSE
    ELSE IF Head(s) = "&"
         THEN \E e \in Entities : StartsWith(s, e) /\ WellFormedText(Drop(s, Len(e)))
         ELSE WellFormedText(Tail(s))

\* C7: for every template on_config accepts, the titles and descriptions of
\* the written document have "&", "<" and ">" escaped, so the document is
\* well-formed.
C7_EscapedOutput ==
    Written =>
        \A i \in DOMAIN out_file.items :
            /\ WellFormedText(out_file.items[i].title)
            /\ WellFormedText(out_file.items[i].description)

\* ---- C8
\* C8: after a successful on_config the feed metadata has the key rss_url
\* exactly when site_url is configured (neither None nor empty), and its
\* value is site_url, "/" and output_feed_filepath put together.
C8_RssUrl ==
    ~Unconfigured =>
        /\ ("rss_url" \in feed.keys) <=>
              (site_config.site_url # NONE /\ site_config.site_url # "")
        /\ "rss_url" \in feed.keys =>
              feed.rss_url = site_config.site_url \o "/" \o config.output_feed_filepath
        /\ "rss_url" \notin feed.keys => feed.rss_url = NONE

C8_Witness ==
    /\ last_call = "on_config"
    /\ error = "ok"
    /\ "rss_url" \in feed.keys
    /\ config.output_feed_filepath = "rss/feed.xml"

\* ---- C9
\* the pages whose on_page_markdown call has returned
Returned == {p \in PageIds : pc[p] = "done"}

\* C9: with the on_page_markdown calls of distinct pages overlapping, the
\* collection holds exactly one entry for every call that has returned and
\* that entry is the page's PageInformation; once all k calls have returned
\* it holds k entries.
C9_NoLostEntry ==
    /\ Len(pages_to_filter) = Cardinality(Returned)
    /\ \A p \in Returned :
          Cardinality({i \in 1..Len(pages_to_filter) :
                          pages_to_filter[i] = ExpectedInfo(p)}) = 1
    /\ (hostpc = "pages" /\ \A p \in 1..npages : pc[p] = "done")
          => Len(pages_to_filter) = npages

\* calls overlap: two calls are between their two steps after another call
\* has appended its entry
C9_Witness ==
    /\ Cardinality({p \in PageIds : pc[p] = "L118"}) >= 2
    /\ Returned # {}
    /\ Len(pages_to_filter) >= 1

\* ---- C10
\* the fields of the feed metadata other than entries
OtherFields(f) ==
    <<f.keys \ {"entries"}, f.author, f.buildDate, f.copyright, f.description,
      f.generator, f.html_url, f.repo_url, f.title, f.ttl, f.rss_url>>

\* C10: the entries field of the feed metadata is absent until on_post_build
\* has run, which is after every on_page_markdown call of the build has
\* returned, and is set once; the other fields are set by on_config and
\* changed neither by on_page_markdown nor by on_post_build.
C10_EntriesSetOnceAtRender ==
    /\ []("entries" \in feed.keys =>
             /\ last_call = "on_post_build" /\ error = "ok"
             /\ \A p \in 1..npages : pc[p] = "done"
             /\ Len(pages_to_filter) = npages)
    /\ [](IF Unconfigured THEN feed = NoFeed
          ELSE {"author", "buildDate", "copyright", "description", "generator",
                "html_url", "repo_url", "title", "ttl"} \subseteq feed.keys)
    /\ [][ "entries" \in feed.keys => feed' = feed ]_vars
    /\ [][ last_call' # "on_config" => OtherFields(feed') = OtherFields(feed) ]_vars

C10_Witness ==
    /\ "entries" \in feed.keys
    /\ Len(feed.entries) = 2
    /\ npages = MaxPages

====
